---- MODULE Spec2Model ----
(***************************************************************************)
(* runkit: the privileged control plane of a runit front end.              *)
(*                                                                         *)
(*   runkit-core/src/lib.rs   ServiceManager (validate, status, list)      *)
(*   runkitd/src/main.rs      HelperContext (call_sv, enable, disable),    *)
(*                            one-shot mode                                *)
(*   runkitd/src/dbus.rs      RunkitService (the bus interface), authorize *)
(*                                                                         *)
(* Text is a sequence of one-character strings; a path is a sequence of    *)
(* components; the filesystem is a set of entries keyed by resolved path.  *)
(***************************************************************************)
EXTENDS Integers, Sequences, FiniteSets, TLC

VARIABLES fs, last, req, wire, daemon

vars == <<fs, last, req, wire, daemon>>

----------------------------------------------------------------------------
(* Text                                                                    *)

Digits == {"0", "1", "2", "3", "4", "5", "6", "7", "8", "9"}

Lower == {"a", "b", "c", "d", "e", "f", "g", "h", "i", "j", "k", "l", "m",
          "n", "o", "p", "q", "r", "s", "t", "u", "v", "w", "x", "y", "z"}

Upper == {"A", "B", "C", "D", "E", "F", "G", "H", "I", "J", "K", "L", "M",
          "N", "O", "P", "Q", "R", "S", "T", "U", "V", "W", "X", "Y", "Z"}

\* char::is_ascii_alphanumeric
IsAsciiAlphanumeric(c) == c \in Digits \cup Lower \cup Upper

\* char::is_whitespace, for the characters process output is built from here
IsWhitespace(c) == c \in {" ", "\n", "\t", "\r"}

\* A byte that is not valid UTF-8: a file name holding it has no &str form.
BadByte == "\\xFF"

\* The byte value of a character (the order String::cmp compares by).
ByteOf(c) ==
    CASE c = "\n" -> 10
      [] c = " " -> 32
      [] c = "!" -> 33
      [] c = "-" -> 45
      [] c = "." -> 46
      [] c = "/" -> 47
      [] c = "0" -> 48
      [] c = "A" -> 65
      [] c = "_" -> 95
      [] c = "a" -> 97
      [] c = "b" -> 98
      [] c = "c" -> 99
      [] c = "e" -> 101
      [] c = "i" -> 105
      [] c = "r" -> 114
      [] c = "s" -> 115
      [] c = "t" -> 116
      [] c = "v" -> 118
      [] OTHER -> 255

RECURSIVE TrimStart(_)
TrimStart(s) ==
    IF s # <<>> /\ IsWhitespace(Head(s)) THEN TrimStart(Tail(s)) ELSE s

RECURSIVE TrimEnd(_)
TrimEnd(s) ==
    IF s # <<>> /\ IsWhitespace(s[Len(s)])
    THEN TrimEnd(SubSeq(s, 1, Len(s) - 1))
    ELSE s

\* str::trim
Trim(s) == TrimEnd(TrimStart(s))

\* Ordering::Less of <[u8]>::cmp: lexicographic by byte, a proper prefix first.
RECURSIVE BytesLess(_, _)
BytesLess(s, t) ==
    IF t = <<>> THEN FALSE
    ELSE IF s = <<>> THEN TRUE
    ELSE IF ByteOf(Head(s)) # ByteOf(Head(t)) THEN ByteOf(Head(s)) < ByteOf(Head(t))
    ELSE BytesLess(Tail(s), Tail(t))

----------------------------------------------------------------------------
(* Paths                                                                   *)

\* DEFAULT_SERVICE_DIR = "/etc/sv", DEFAULT_ENABLED_DIR = "/var/service"
definitions_dir == << <<"e", "t", "c">>, <<"s", "v">> >>

enabled_dir == << <<"v", "a", "r">>, <<"s", "e", "r", "v", "i", "c", "e">> >>

\* The components of a relative or absolute path text: split at '/', empty
\* components (repeated or trailing separators) dropped.
RECURSIVE Components(_, _)
Components(text, cur) ==
    IF text = <<>> THEN (IF cur = <<>> THEN <<>> ELSE <<cur>>)
    ELSE IF Head(text) = "/"
         THEN (IF cur = <<>> THEN <<>> ELSE <<cur>>) \o Components(Tail(text), <<>>)
         ELSE Components(Tail(text), Append(cur, Head(text)))

\* Path::join: an absolute argument replaces the base, a relative one is
\* pushed after it.
Join(base, name) ==
    IF name # <<>> /\ Head(name) = "/"
    THEN Components(name, <<>>)
    ELSE base \o Components(name, <<>>)

\* What the kernel's path walk makes of the components: "." stays in place,
\* ".." steps to the parent (the root is its own parent).
RECURSIVE Resolve(_, _)
Resolve(path, at) ==
    IF path = <<>> THEN at
    ELSE IF Head(path) = <<".">> THEN Resolve(Tail(path), at)
    ELSE IF Head(path) = <<".", ".">>
         THEN Resolve(Tail(path), IF at = <<>> THEN <<>> ELSE SubSeq(at, 1, Len(at) - 1))
         ELSE Resolve(Tail(path), Append(at, Head(path)))

Canon(path) == Resolve(path, <<>>)

Parent(p) == IF p = <<>> THEN <<>> ELSE SubSeq(p, 1, Len(p) - 1)

\* p is an immediate child entry of directory root
IsChildOf(p, root) == Len(p) = Len(root) + 1 /\ SubSeq(p, 1, Len(root)) = root

----------------------------------------------------------------------------
(* Filesystem: a set of entries [path, kind, target], path resolved, kind  *)
(* "dir", "file" or "link" (target: the link's text, <<>> otherwise).      *)

Entry(p, k, t) == [path |-> p, kind |-> k, target |-> t]

HasEntry(f, p) == \E e \in f : e.path = p

EntryAt(f, p) == CHOOSE e \in f : e.path = p

\* The kind of the object a path leads to, following a final symbolic link
\* once (stat); "none" when the walk fails.
StatKind(f, path) ==
    LET p == Canon(path) IN
    IF ~HasEntry(f, p) THEN "none"
    ELSE LET e == EntryAt(f, p) IN
         IF e.kind # "link" THEN e.kind
         ELSE LET q == Canon(e.target) IN
              IF HasEntry(f, q) /\ EntryAt(f, q).kind # "link"
              THEN EntryAt(f, q).kind
              ELSE "none"

\* Path::exists (follows symbolic links: a dangling link does not exist)
Exists(f, path) == StatKind(f, path) # "none"

\* Path::is_dir
IsDir(f, path) == StatKind(f, path) = "dir"

\* symlink that takes the place of an entry already there instead of failing
SymlinkFails_only_without_parent(f, dest) == ~IsDir(f, Parent(Canon(dest)))

\* std::os::unix::fs::symlink(src, dest): EEXIST when dest names any entry
\* (also a dangling link, also "." and ".."), ENOENT without a parent directory.
SymlinkFails(f, dest) ==
    \/ HasEntry(f, Canon(dest))
    \/ ~IsDir(f, Parent(Canon(dest)))

\* symlink with its arguments confused: the link points at itself
Symlink_to_itself(f, src, dest) ==
    IF HasEntry(f, Canon(dest)) \/ ~IsDir(f, Parent(Canon(dest))) THEN f
    ELSE f \cup {Entry(Canon(dest), "link", dest)}

Symlink(f, src, dest) ==
    IF SymlinkFails(f, dest) THEN f
    ELSE f \cup {Entry(Canon(dest), "link", src)}

\* std::fs::remove_file(dest): unlink(2), which does not follow a final link
\* and refuses a directory.
RemoveFileFails(f, dest) ==
    \/ ~HasEntry(f, Canon(dest))
    \/ EntryAt(f, Canon(dest)).kind = "dir"

RemoveFile(f, dest) ==
    IF RemoveFileFails(f, dest) THEN f
    ELSE f \ {EntryAt(f, Canon(dest))}

\* std::fs::read_dir: the names of the immediate entries ("." and ".." are
\* never listed)
DirNames(f, dir) == {e.path[Len(e.path)] : e \in {x \in f : IsChildOf(x.path, Canon(dir))}}

----------------------------------------------------------------------------
(* External commands: what one run of the sv binary gives back.            *)

\* std::process::Output, or the spawn error of Command::output
Output(sp, su, so, se) == [spawned |-> sp, success |-> su, stdout |-> so, stderr |-> se]

RunLine == <<"r", "u", "n", ":", " ", "a", ":", " ", "(", "p", "i", "d", " ", "7", ")", " ", "3", "s", "\n">>

\* The outcomes the model draws from: no process at all, or a process with an
\* exit status and two captured streams.
Outputs ==
    {Output(FALSE, FALSE, <<>>, <<>>),
     Output(TRUE, TRUE, <<>>, <<>>),
     Output(TRUE, TRUE, RunLine, <<>>),
     Output(TRUE, TRUE, <<" ", "\n">>, <<>>),
     Output(TRUE, TRUE, RunLine, <<"e", "r", "r", "\n">>),
     Output(TRUE, TRUE, RunLine, <<" ", "\n">>),
     Output(TRUE, FALSE, <<>>, <<>>),
     Output(TRUE, FALSE, <<>>, <<" ", "\n">>),
     Output(TRUE, FALSE, RunLine, <<"e", "r", "r", "\n">>)}

\* What the status queries of one enumeration are drawn from
StatusOutputs ==
    {Output(FALSE, FALSE, <<>>, <<>>),
     Output(TRUE, TRUE, RunLine, <<>>),
     Output(TRUE, FALSE, <<>>, <<>>),
     Output(TRUE, TRUE, RunLine, <<"e", "r", "r", "\n">>)}

\* One spawned process: the program, its subcommand, its one argument.
Spawn(sub, service) == [program |-> "sv", subcommand |-> sub, arg |-> service]

----------------------------------------------------------------------------
(* Results                                                                 *)

\* A message: a fixed text (tag) with, where the code interpolates captured
\* output, that output.
Msg(tag, text) == [tag |-> tag, text |-> text]

NoMsg == Msg("", <<>>)

\* What an operation hands back: its Result, the filesystem it leaves, the
\* processes it spawned in order, the paths it handed to the filesystem.
Step(res, f, spawned, probed) ==
    [res |-> res, fs |-> f, spawned |-> spawned, probed |-> probed]

\* Ok(CommandOutcome { message, data }) / Ok(value) of the core
OkRes(message, data) ==
    [ok |-> TRUE, kind |-> "Ok", command |-> "", message |-> message, data |-> data]

\* Err(ServiceError::*) and Err(HelperError::*)
ErrRes(kind, command, message) ==
    [ok |-> FALSE, kind |-> kind, command |-> command, message |-> message, data |-> <<>>]

----------------------------------------------------------------------------
(* runkit-core: ServiceManager                                             *)

\* validate_service_name without the test for the empty name
validate_service_name_takes_empty(service) ==
    \A i \in 1..Len(service) :
       \/ IsAsciiAlphanumeric(service[i])
       \/ service[i] = "-"
       \/ service[i] = "_"
       \/ service[i] = "."

\* ServiceManager::validate_service_name
validate_service_name(service) ==
    /\ service # <<>>
    /\ \A i \in 1..Len(service) :
          \/ IsAsciiAlphanumeric(service[i])
          \/ service[i] = "-"
          \/ service[i] = "_"
          \/ service[i] = "."

----------------------------------------------------------------------------
(* runkit-core: the status parser. Numbers are kept as their decimal       *)
(* digits without leading zeros, so that the u32, u64 and i32 ranges can   *)
(* be told apart.                                                          *)

\* A decimal digit that is not ASCII (ARABIC-INDIC DIGIT THREE): the regex
\* class \d takes it, str::parse does not.
ArabicThree == "U+0663"

\* The regex class \d (Unicode decimal digits)
IsDigit(c) == c \in Digits \cup {ArabicThree}

StartsWith(s, lit) == Len(s) >= Len(lit) /\ SubSeq(s, 1, Len(lit)) = lit

Drop(s, n) == SubSeq(s, n + 1, Len(s))

\* str::contains
Contains(s, lit) == \E i \in 1..(Len(s) - Len(lit) + 1) : SubSeq(s, i, i + Len(lit) - 1) = lit

\* str::lines().next().unwrap_or(""): up to the first line feed, without it,
\* and without a carriage return right before it
FirstLine(text) ==
    LET ends == {i \in 1..Len(text) : text[i] = "\n"} IN
    IF ends = {} THEN text
    ELSE LET n == CHOOSE i \in ends : \A j \in ends : i <= j
             l == SubSeq(text, 1, n - 1)
         IN IF l # <<>> /\ l[Len(l)] = "\r" THEN SubSeq(l, 1, Len(l) - 1) ELSE l

\* A failed match, and a match with what is left of the text and the groups
\* captured so far
NoMatch == [matched |-> FALSE, rest |-> <<>>, cap |-> <<>>]

Matched(rest, cap) == [matched |-> TRUE, rest |-> rest, cap |-> cap]

\* Concatenation of two patterns: n is the match of the second pattern on what
\* the first left. Every pattern below needs at least one character, so a
\* failed first match (rest = <<>>) fails the second.
Concat(m, n) ==
    IF m.matched /\ n.matched THEN Matched(n.rest, m.cap \o n.cap) ELSE NoMatch

\* \s+ before a token that is not white space
MatchSpaces(s) ==
    IF s # <<>> /\ IsWhitespace(Head(s)) THEN Matched(TrimStart(s), <<>>) ELSE NoMatch

RECURSIVE TakeDigits(_)
TakeDigits(s) ==
    IF s # <<>> /\ IsDigit(Head(s)) THEN <<Head(s)>> \o TakeDigits(Tail(s)) ELSE <<>>

\* (\d+) before a token that is not a digit; the group is captured
MatchDigits(s) ==
    IF TakeDigits(s) = <<>> THEN NoMatch
    ELSE Matched(Drop(s, Len(TakeDigits(s))), <<TakeDigits(s)>>)

\* ([-]?\d+): captures whether a minus sign stands, then the digits
MatchSignedDigits(s) ==
    IF StartsWith(s, <<"-">>)
    THEN Concat(Matched(Tail(s), <<TRUE>>), MatchDigits(Tail(s)))
    ELSE Concat(Matched(s, <<FALSE>>), MatchDigits(s))

MatchLiteral(s, lit) ==
    IF StartsWith(s, lit) THEN Matched(Drop(s, Len(lit)), <<>>) ELSE NoMatch

ThenSpaces(m) == Concat(m, MatchSpaces(m.rest))

ThenDigits(m) == Concat(m, MatchDigits(m.rest))

ThenSignedDigits(m) == Concat(m, MatchSignedDigits(m.rest))

ThenLiteral(m, lit) == Concat(m, MatchLiteral(m.rest, lit))

\* The position of the first colon of r, 0 when it has none
FirstColon(r) ==
    IF \E i \in 1..Len(r) : r[i] = ":"
    THEN CHOOSE i \in 1..Len(r) : r[i] = ":" /\ \A x \in 1..(i - 1) : r[x] # ":"
    ELSE 0

\* \s+(?P<name>[^:]+):  on what the keyword left: the name ends at the first
\* colon; of the characters before it the first is white space and at least
\* one more is left for the name (the group is not read by the program).
MatchName(r) ==
    IF r = <<>> \/ ~IsWhitespace(r[1]) \/ FirstColon(r) < 3
    THEN NoMatch
    ELSE Matched(Drop(r, FirstColon(r)), <<>>)

\* keyword:\s+(?P<name>[^:]+):\s+
MatchHead(line, keyword) ==
    ThenSpaces(Concat(MatchLiteral(line, keyword), MatchName(MatchLiteral(line, keyword).rest)))

\* \(pid\s+(?P<pid>\d+)\)\s+(?P<uptime>\d+)s   adds <<pid, uptime>> to cap
ThenPidUptime(m) ==
    ThenLiteral(
      ThenDigits(
        ThenSpaces(
          ThenLiteral(
            ThenDigits(
              ThenSpaces(
                ThenLiteral(m, <<"(", "p", "i", "d">>))),
            <<")">>))),
      <<"s">>)

\* RUNNING_REGEX   cap is <<pid, uptime>>
RunningCaptures(line) == ThenPidUptime(MatchHead(line, <<"r", "u", "n", ":">>))

\* DOWN_REGEX   cap is <<since>>
DownCaptures(line) ==
    ThenLiteral(ThenDigits(MatchHead(line, <<"d", "o", "w", "n", ":">>)), <<"s">>)

\* FAIL_REGEX   cap is <<pid, uptime, whether a minus sign stands, code digits>>
FailCaptures(line) ==
    ThenSignedDigits(
      ThenSpaces(
        ThenLiteral(
          ThenSpaces(
            ThenLiteral(
              ThenPidUptime(MatchHead(line, <<"f", "a", "i", "l", ":">>)),
              <<",">>)),
          <<"e", "x", "i", "t">>)))

\* Option: None and Some(v)
None == [some |-> FALSE]

Some(v) == [some |-> TRUE, val |-> v]

RECURSIVE StripZeros(_)
StripZeros(d) ==
    IF Len(d) > 1 /\ Head(d) = "0" THEN StripZeros(Tail(d)) ELSE d

DigitValue(c) == CHOOSE n \in 0..9 : <<"0", "1", "2", "3", "4", "5", "6", "7", "8", "9">>[n + 1] = c

\* a <= b for two digit strings without leading zeros
RECURSIVE DigitsLeq(_, _)
DigitsLeq(a, b) ==
    IF Len(a) # Len(b) THEN Len(a) < Len(b)
    ELSE IF a = <<>> THEN TRUE
    ELSE IF Head(a) # Head(b) THEN DigitValue(Head(a)) < DigitValue(Head(b))
    ELSE DigitsLeq(Tail(a), Tail(b))

\* u32::MAX, u64::MAX, i32::MAX and the magnitude of i32::MIN
U32Max == <<"4", "2", "9", "4", "9", "6", "7", "2", "9", "5">>

U64Max == <<"1", "8", "4", "4", "6", "7", "4", "4", "0", "7", "3", "7", "0", "9", "5", "5", "1", "6", "1", "5">>

I32Max == <<"2", "1", "4", "7", "4", "8", "3", "6", "4", "7">>

I32MinMagnitude == <<"2", "1", "4", "7", "4", "8", "3", "6", "4", "8">>

\* str::parse::<u32>().ok() and ::<u64>: None for a digit that is not ASCII
\* and for a value above max
ParseUnsigned(d, max) ==
    IF \E i \in 1..Len(d) : d[i] \notin Digits THEN None
    ELSE IF ~DigitsLeq(StripZeros(d), max) THEN None
    ELSE Some(StripZeros(d))

\* str::parse::<i32>().ok(), the value as [neg, digits]
ParseI32(neg, d) ==
    IF \E i \in 1..Len(d) : d[i] \notin Digits THEN None
    ELSE IF ~DigitsLeq(StripZeros(d), IF neg THEN I32MinMagnitude ELSE I32Max) THEN None
    ELSE Some([neg |-> neg /\ StripZeros(d) # <<"0">>, digits |-> StripZeros(d)])

Running(pid, uptime) == [state |-> "Running", pid |-> pid, uptime |-> uptime]

Down(since, normally_up) == [state |-> "Down", since |-> since, normally_up |-> normally_up]

Failed(pid, uptime, exit_code) ==
    [state |-> "Failed", pid |-> pid, uptime |-> uptime, exit_code |-> exit_code]

Unknown(raw) == [state |-> "Unknown", raw |-> raw]

\* Option::unwrap_or
unwrap_or(option, default) == IF option.some THEN option.val ELSE default

\* The Running arm with the two numbers in each other's field
RunningIfParsed_swapped(pid, uptime) ==
    IF pid.some /\ uptime.some THEN Some(Running(uptime.val, pid.val)) ELSE None

\* if let (Some(pid), Some(uptime)) = (pid, uptime) { return Running {..} }
RunningIfParsed(pid, uptime) ==
    IF pid.some /\ uptime.some THEN Some(Running(pid.val, uptime.val)) ELSE None

\* The Running arm of from_sv_status on the captures: None when it does not
\* return
RunningArm(caps) ==
    IF ~caps.matched THEN None
    ELSE RunningIfParsed(ParseUnsigned(caps.cap[1], U32Max),
                         ParseUnsigned(caps.cap[2], U64Max))

\* The Down arm: a match always returns, with since = 0 (unwrap_or_default)
\* when the seconds do not parse
DownArm(caps, line) ==
    IF ~caps.matched THEN None
    ELSE Some(Down(unwrap_or(ParseUnsigned(caps.cap[1], U64Max), <<"0">>),
                   Contains(line, <<"n", "o", "r", "m", "a", "l", "l", "y", " ", "u", "p">>)))

\* if let (Some(pid), Some(uptime)) = (pid, uptime) { return Failed {..} }
FailedIfParsed(pid, uptime, exit_code) ==
    IF pid.some /\ uptime.some THEN Some(Failed(pid.val, uptime.val, exit_code)) ELSE None

\* The Failed arm: exit_code = 0 (unwrap_or_default) when it does not parse
FailedArm(caps) ==
    IF ~caps.matched THEN None
    ELSE FailedIfParsed(ParseUnsigned(caps.cap[1], U32Max),
                        ParseUnsigned(caps.cap[2], U64Max),
                        unwrap_or(ParseI32(caps.cap[3], caps.cap[4]),
                                  [neg |-> FALSE, digits |-> <<"0">>]))

\* from_sv_status on its trimmed first line: the first arm that returns
from_line(line) ==
    unwrap_or(RunningArm(RunningCaptures(line)),
      unwrap_or(DownArm(DownCaptures(line), line),
        unwrap_or(FailedArm(FailCaptures(line)),
          Unknown(line))))

\* from_sv_status without the trim of the first line
from_sv_status_untrimmed(status_output) == from_line(FirstLine(status_output))

\* ServiceRuntimeState::from_sv_status
from_sv_status(status_output) == from_line(Trim(FirstLine(status_output)))

----------------------------------------------------------------------------
(* runkit-core: ServiceManager                                             *)

\* status reading the standard output whatever the standard error holds
status_ignores_stderr(f, service, out) ==
    IF ~validate_service_name(service)
    THEN Step(ErrRes("InvalidServiceName", "", Msg("invalid service name", service)), f, <<>>, {})
    ELSE IF ~out.spawned
    THEN Step(ErrRes("Io", "", Msg("I/O error while accessing sv", <<>>)), f, <<>>, {})
    ELSE IF Trim(out.stdout) = <<>>
    THEN Step(ErrRes("SvCommand", "", Msg("sv status returned no output", <<>>)),
              f, <<Spawn("status", service)>>, {})
    ELSE Step(OkRes(NoMsg, from_sv_status(out.stdout)), f, <<Spawn("status", service)>>, {})

\* ServiceManager::status
status(f, service, out) ==
    IF ~validate_service_name(service)
    THEN Step(ErrRes("InvalidServiceName", "", Msg("invalid service name", service)), f, <<>>, {})
    ELSE IF ~out.spawned
    THEN Step(ErrRes("Io", "", Msg("I/O error while accessing sv", <<>>)), f, <<>>, {})
    ELSE IF Trim(out.stderr) # <<>>
    THEN Step(ErrRes("SvCommand", "", Msg("stderr", Trim(out.stderr))),
              f, <<Spawn("status", service)>>, {})
    ELSE IF Trim(out.stdout) = <<>>
    THEN Step(ErrRes("SvCommand", "", Msg("sv status returned no output", <<>>)),
              f, <<Spawn("status", service)>>, {})
    ELSE Step(OkRes(NoMsg, from_sv_status(out.stdout)), f, <<Spawn("status", service)>>, {})

\* ServiceManager::read_description: the first candidate file of the
\* definition directory that can be read and is not blank.
read_description(f, definition_path) ==
    LET candidates == << <<"d", "e", "s", "c", "r", "i", "p", "t", "i", "o", "n">>,
                         <<"R", "E", "A", "D", "M", "E">>,
                         <<"R", "E", "A", "D", "M", "E", ".", "m", "d">> >>
        found == {i \in 1..Len(candidates) :
                    StatKind(f, Append(definition_path, candidates[i])) = "file"}
    IN IF found = {} THEN "None"
       ELSE "Some"

\* build_service_info, lines 260-278, with st the result of self.status(name)
service_info(f, name, definition_path, enabled_path, enabled, st) ==
    IF ~st.res.ok
    THEN Step(st.res, f, st.spawned, {Canon(enabled_path)})
    ELSE Step(OkRes(NoMsg, << [name |-> name,
                               definition_path |-> definition_path,
                               enabled |-> enabled,
                               desired_state |-> IF enabled THEN "AutoStart" ELSE "Manual",
                               runtime_state |-> st.res.data,
                               description |-> read_description(f, definition_path)] >>),
              f, st.spawned, {Canon(enabled_path)})

\* ServiceManager::build_service_info; res.data is <<>> for Ok(None) and
\* <<info>> for Ok(Some(info)).
build_service_info(f, name, definition_path, out) ==
    IF name # <<>> /\ Head(name) = "."
    THEN Step(OkRes(NoMsg, <<>>), f, <<>>, {})
    ELSE service_info(f, name, definition_path, Join(enabled_dir, name),
                      Exists(f, Join(enabled_dir, name)), status(f, name, out))

\* OsStr::to_str: None for a name that is not valid UTF-8
to_str_is_some(name) == \A i \in 1..Len(name) : name[i] # BadByte

\* services left in the order they were pushed
InsertByName_unsorted(sorted, info) == sorted \o <<info>>

\* slice::sort_by(|a, b| a.name.cmp(&b.name)), as an insertion sort (stable)
RECURSIVE InsertByName(_, _)
InsertByName(sorted, info) ==
    IF sorted = <<>> THEN <<info>>
    ELSE IF BytesLess(info.name, Head(sorted).name)
         THEN <<info>> \o sorted
         ELSE <<Head(sorted)>> \o InsertByName(Tail(sorted), info)

RECURSIVE sort_by_name(_)
sort_by_name(services) ==
    IF services = <<>> THEN <<>>
    ELSE InsertByName(sort_by_name(SubSeq(services, 1, Len(services) - 1)),
                      services[Len(services)])

\* The loop made best-effort: an entry whose status query fails is left out.
RECURSIVE list_loop_best_effort(_, _, _, _, _, _)
list_push_best_effort(f, order, outs, services, spawned, probed, b) ==
    list_loop_best_effort(f, Tail(order), outs,
                          IF b.res.ok THEN services \o b.res.data ELSE services,
                          spawned \o b.spawned, probed \cup b.probed)

list_loop_best_effort(f, order, outs, services, spawned, probed) ==
    IF order = <<>>
    THEN Step(OkRes(NoMsg, sort_by_name(services)), f, spawned, probed)
    ELSE IF ~IsDir(f, Append(definitions_dir, Head(order))) \/ ~to_str_is_some(Head(order))
    THEN list_loop_best_effort(f, Tail(order), outs, services, spawned,
                               probed \cup {Canon(Append(definitions_dir, Head(order)))})
    ELSE list_push_best_effort(f, order, outs, services, spawned,
                               probed \cup {Canon(Append(definitions_dir, Head(order)))},
                               build_service_info(f, Head(order),
                                                  Append(definitions_dir, Head(order)),
                                                  outs[Head(order)]))

\* The for loop of list_services over the entries in the order read_dir
\* gives them; outs[name] is what the status query of that entry gives.
RECURSIVE list_loop(_, _, _, _, _, _)
\* list_services, line 239: `?` on the result b of build_service_info, then
\* the push and the next entry
list_push(f, order, outs, services, spawned, probed, b) ==
    IF ~b.res.ok
    THEN Step(b.res, f, spawned \o b.spawned, probed \cup b.probed)
    ELSE list_loop(f, Tail(order), outs, services \o b.res.data,
                   spawned \o b.spawned, probed \cup b.probed)

list_loop(f, order, outs, services, spawned, probed) ==
    IF order = <<>>
    THEN Step(OkRes(NoMsg, sort_by_name(services)), f, spawned, probed)
    ELSE IF ~IsDir(f, Append(definitions_dir, Head(order))) \/ ~to_str_is_some(Head(order))
    THEN list_loop(f, Tail(order), outs, services, spawned,
                   probed \cup {Canon(Append(definitions_dir, Head(order)))})
    ELSE list_push(f, order, outs, services, spawned,
                   probed \cup {Canon(Append(definitions_dir, Head(order)))},
                   build_service_info(f, Head(order), Append(definitions_dir, Head(order)),
                                      outs[Head(order)]))

\* ServiceManager::list_services
list_services(f, order, outs) ==
    IF ~IsDir(f, definitions_dir)
    THEN Step(ErrRes("Io", "", Msg("I/O error while accessing definitions_dir", <<>>)),
              f, <<>>, {Canon(definitions_dir)})
    ELSE list_loop(f, order, outs, <<>>, <<>>, {Canon(definitions_dir)})

\* ServiceManager::service_description
service_description(f, service) ==
    IF ~validate_service_name(service)
    THEN Step(ErrRes("InvalidServiceName", "", Msg("invalid service name", service)), f, <<>>, {})
    ELSE Step(OkRes(NoMsg, <<read_description(f, Join(definitions_dir, service))>>),
              f, <<>>, {Canon(Join(definitions_dir, service))})

\* ServiceManager::tail_logs: the log tailer gives at most max(1, lines)
\* of the `have` entries it holds, or has no stream for the service.
tail_logs(f, service, lines, available, have) ==
    IF ~validate_service_name(service)
    THEN Step(ErrRes("InvalidServiceName", "", Msg("invalid service name", service)), f, <<>>, {})
    ELSE IF ~available
    THEN Step(ErrRes("LogUnavailable", "", Msg("log stream unavailable", service)), f, <<>>, {})
    ELSE LET n == IF lines < 1 THEN 1 ELSE lines
             k == IF have < n THEN have ELSE n
         IN Step(OkRes(NoMsg, [i \in 1..k |-> [message |-> "line"]]), f, <<>>, {})

----------------------------------------------------------------------------
(* runkitd: HelperContext                                                  *)

\* impl From<ServiceError> for HelperError
FromServiceError(res) ==
    IF res.ok THEN res
    ELSE CASE res.kind = "InvalidServiceName" -> ErrRes("InvalidService", "", res.message)
           [] res.kind = "Io" -> ErrRes("Io", "", res.message)
           [] res.kind = "SvCommand" -> ErrRes("SvFailure", "status", res.message)
           [] res.kind = "LogUnavailable" -> ErrRes("Other", "", Msg("log stream unavailable", <<>>))
           [] OTHER -> ErrRes("Other", "", res.message)

\* HelperContext::logs
logs(f, service, lines, available, have) ==
    LET t == tail_logs(f, service, lines, available, have) IN
    Step(FromServiceError(t.res), f, t.spawned, t.probed)

\* HelperContext::describe
describe(f, service) ==
    LET d == service_description(f, service) IN
    IF ~d.res.ok THEN Step(FromServiceError(d.res), f, d.spawned, d.probed)
    ELSE Step(OkRes(NoMsg, <<[service |-> service, description |-> d.res.data[1]]>>),
              f, d.spawned, d.probed)

\* impl From<DesiredState> for SnapshotDesiredState, with its serde name
SnapshotDesiredState(value) ==
    IF value = "AutoStart" THEN "auto_start" ELSE "manual"

\* impl From<&ServiceInfo> for ServiceSnapshot
ServiceSnapshot(info) ==
    [name |-> info.name,
     definition_path |-> info.definition_path,
     enabled |-> info.enabled,
     desired_state |-> SnapshotDesiredState(info.desired_state),
     runtime_state |-> info.runtime_state,
     description |-> info.description]

\* HelperContext::list on the result l of manager.list_services()
list_outcome(f, l) ==
    IF ~l.res.ok
    THEN Step(FromServiceError(l.res), f, l.spawned, l.probed)
    ELSE Step(OkRes(NoMsg, [i \in 1..Len(l.res.data) |-> ServiceSnapshot(l.res.data[i])]),
              f, l.spawned, l.probed)

\* HelperContext::list
list(f, order, outs) == list_outcome(f, list_services(f, order, outs))

\* HelperError::SvFailure { command, service, message }
SvFailure(command, service, message) ==
    ErrRes("SvFailure", command, message) @@ [service |-> service]

\* call_sv with the name checked only after the command has run
call_sv_validates_late(f, subcommand, service, out) ==
    IF ~out.spawned
    THEN Step(ErrRes("Io", "", Msg("I/O error at sv", <<>>)), f, <<>>, {})
    ELSE IF ~validate_service_name(service)
    THEN Step(ErrRes("InvalidService", "", Msg("invalid service name", service)),
              f, <<Spawn(subcommand, service)>>, {})
    ELSE IF ~out.success
    THEN Step(ErrRes("SvFailure", subcommand, Msg("exit status", <<>>)),
              f, <<Spawn(subcommand, service)>>, {})
    ELSE Step(OkRes(Msg("command executed", <<>>), <<>>), f, <<Spawn(subcommand, service)>>, {})

\* HelperContext::call_sv
call_sv(f, subcommand, service, out) ==
    IF ~validate_service_name(service)
    THEN Step(ErrRes("InvalidService", "", Msg("invalid service name", service)), f, <<>>, {})
    ELSE IF ~out.spawned
    THEN Step(ErrRes("Io", "", Msg("I/O error at sv", <<>>)), f, <<>>, {})
    ELSE IF ~out.success
    THEN Step(SvFailure(subcommand, service,
                        IF Trim(out.stderr) = <<>>
                        THEN Msg("exit status", <<>>)
                        ELSE Msg("stderr", Trim(out.stderr))),
              f, <<Spawn(subcommand, service)>>, {})
    ELSE Step(OkRes(IF Trim(out.stdout) = <<>>
                    THEN Msg("command executed", <<>>)
                    ELSE Msg("stdout", Trim(out.stdout)),
                    <<>>),
              f, <<Spawn(subcommand, service)>>, {})

\* enable without the test for the definition
enable_without_definition_test(f, service) ==
    IF ~validate_service_name(service)
    THEN Step(ErrRes("InvalidService", "", Msg("invalid service name", service)), f, <<>>, {})
    ELSE LET src == Join(definitions_dir, service)
             dest == Join(enabled_dir, service)
         IN IF Exists(f, dest)
            THEN Step(ErrRes("AlreadyEnabled", "", Msg("service already enabled", service)),
                      f, <<>>, {Canon(dest)})
            ELSE IF SymlinkFails(f, dest)
            THEN Step(ErrRes("Io", "", Msg("I/O error at dest", <<>>)), f, <<>>, {Canon(dest)})
            ELSE Step(OkRes(Msg("Enabled service", service), <<>>),
                      Symlink(f, src, dest), <<>>, {Canon(dest)})

\* HelperContext::enable
enable(f, service) ==
    IF ~validate_service_name(service)
    THEN Step(ErrRes("InvalidService", "", Msg("invalid service name", service)), f, <<>>, {})
    ELSE LET src == Join(definitions_dir, service)
             dest == Join(enabled_dir, service)
         IN IF ~Exists(f, src)
            THEN Step(ErrRes("DefinitionMissing", "", Msg("service definition missing", service)),
                      f, <<>>, {Canon(src)})
            ELSE IF Exists(f, dest)
            THEN Step(ErrRes("AlreadyEnabled", "", Msg("service already enabled", service)),
                      f, <<>>, {Canon(src), Canon(dest)})
            ELSE IF SymlinkFails(f, dest)
            THEN Step(ErrRes("Io", "", Msg("I/O error at dest", <<>>)),
                      f, <<>>, {Canon(src), Canon(dest)})
            ELSE Step(OkRes(Msg("Enabled service", service), <<>>),
                      Symlink(f, src, dest), <<>>, {Canon(src), Canon(dest)})

\* HelperContext::disable
disable(f, service) ==
    IF ~validate_service_name(service)
    THEN Step(ErrRes("InvalidService", "", Msg("invalid service name", service)), f, <<>>, {})
    ELSE LET dest == Join(enabled_dir, service)
         IN IF ~Exists(f, dest)
            THEN Step(ErrRes("NotEnabled", "", Msg("service is not enabled", service)),
                      f, <<>>, {Canon(dest)})
            ELSE IF RemoveFileFails(f, dest)
            THEN Step(ErrRes("Io", "", Msg("I/O error at dest", <<>>)),
                      f, <<>>, {Canon(dest)})
            ELSE Step(OkRes(Msg("Disabled service", service), <<>>),
                      RemoveFile(f, dest), <<>>, {Canon(dest)})

\* enum ActionKind
ActionKinds == {"Start", "Stop", "Restart", "Reload", "Check", "Once", "Enable", "Disable"}

SvKinds == {"Start", "Stop", "Restart", "Reload", "Check", "Once"}

\* ActionKind::parse folding the case of the name
ActionKind_parse_ignores_case(name) ==
    CASE name \in {"start", "Start"} -> "Start"
      [] name = "stop" -> "Stop"
      [] name = "restart" -> "Restart"
      [] name = "reload" -> "Reload"
      [] name = "check" -> "Check"
      [] name = "once" -> "Once"
      [] name = "enable" -> "Enable"
      [] name = "disable" -> "Disable"
      [] OTHER -> "None"

\* ActionKind::parse ("None" for Option::None)
ActionKind_parse(name) ==
    CASE name = "start" -> "Start"
      [] name = "stop" -> "Stop"
      [] name = "restart" -> "Restart"
      [] name = "reload" -> "Reload"
      [] name = "check" -> "Check"
      [] name = "once" -> "Once"
      [] name = "enable" -> "Enable"
      [] name = "disable" -> "Disable"
      [] OTHER -> "None"

\* ActionKind::as_str
as_str(kind) ==
    CASE kind = "Start" -> "start"
      [] kind = "Stop" -> "stop"
      [] kind = "Restart" -> "restart"
      [] kind = "Reload" -> "reload"
      [] kind = "Check" -> "check"
      [] kind = "Once" -> "once"
      [] kind = "Enable" -> "enable"
      [] kind = "Disable" -> "disable"

\* perform_action handing Stop to the supervisor under the action's own name
perform_action_stop_as_stop(f, kind, service, out) ==
    CASE kind = "Start" -> call_sv(f, "up", service, out)
      [] kind = "Stop" -> call_sv(f, "stop", service, out)
      [] kind = "Restart" -> call_sv(f, "restart", service, out)
      [] kind = "Reload" -> call_sv(f, "reload", service, out)
      [] kind = "Check" -> call_sv(f, "check", service, out)
      [] kind = "Once" -> call_sv(f, "once", service, out)
      [] kind = "Enable" -> enable(f, service)
      [] kind = "Disable" -> disable(f, service)

\* HelperContext::perform_action
perform_action(f, kind, service, out) ==
    CASE kind = "Start" -> call_sv(f, "up", service, out)
      [] kind = "Stop" -> call_sv(f, "down", service, out)
      [] kind = "Restart" -> call_sv(f, "restart", service, out)
      [] kind = "Reload" -> call_sv(f, "reload", service, out)
      [] kind = "Check" -> call_sv(f, "check", service, out)
      [] kind = "Once" -> call_sv(f, "once", service, out)
      [] kind = "Enable" -> enable(f, service)
      [] kind = "Disable" -> disable(f, service)

\* exit_code giving "not enabled" the code of "already enabled"
exit_code_not_enabled_as_4(res) ==
    IF res.ok THEN 0
    ELSE CASE res.kind = "InvalidService" -> 2
           [] res.kind = "DefinitionMissing" -> 3
           [] res.kind = "AlreadyEnabled" -> 4
           [] res.kind = "NotEnabled" -> 4
           [] res.kind = "SvFailure" -> 6
           [] res.kind = "Io" -> 7
           [] OTHER -> 1

\* HelperError::exit_code, 0 for Ok (main)
exit_code(res) ==
    IF res.ok THEN 0
    ELSE CASE res.kind = "InvalidService" -> 2
           [] res.kind = "DefinitionMissing" -> 3
           [] res.kind = "AlreadyEnabled" -> 4
           [] res.kind = "NotEnabled" -> 5
           [] res.kind = "SvFailure" -> 6
           [] res.kind = "Io" -> 7
           [] OTHER -> 1

----------------------------------------------------------------------------
(* Bounds and inputs                                                       *)

\* The most entries the definitions root starts with
MaxEntries == 3

\* The most callers with a bus request in flight at once
MaxCallers == 2

Callers == 1..MaxCallers

\* The most log lines a caller asks for, and the tailer holds
MaxLines == 2

\* Service names a caller passes: "", "a", "b", ".", "..", ".a", "a!", "../a"
ReqNames == {<<>>, <<"a">>, <<"b">>, <<".">>, <<".", ".">>, <<".", "a">>,
             <<"a", "!">>, <<".", ".", "/", "a">>}

\* The directories every configuration has, and the definitions root itself
Skeleton ==
    {Entry(<<>>, "dir", <<>>),
     Entry(Parent(definitions_dir), "dir", <<>>),
     Entry(Parent(enabled_dir), "dir", <<>>),
     Entry(enabled_dir, "dir", <<>>)}

DefinitionsRoot == Entry(definitions_dir, "dir", <<>>)

\* What the definitions root may hold at the start: service directories
\* "a" and "b", a plain file "b", a hidden directory ".a", a directory "a!"
\* whose name is no service name, a directory whose name is not UTF-8.
DefCandidates ==
    {Entry(Append(definitions_dir, <<"a">>), "dir", <<>>),
     Entry(Append(definitions_dir, <<"b">>), "dir", <<>>),
     Entry(Append(definitions_dir, <<"b">>), "file", <<>>),
     Entry(Append(definitions_dir, <<".", "a">>), "dir", <<>>),
     Entry(Append(definitions_dir, <<"a", "!">>), "dir", <<>>),
     Entry(Append(definitions_dir, <<BadByte>>), "dir", <<>>)}

\* An enabled marker as the program creates it
Marker(name) == Entry(Append(enabled_dir, name), "link", Join(definitions_dir, name))

\* The enabled root starts with markers among these (one whose definition is
\* gone is a dangling link).
InitMarkers == {Marker(<<"a">>)}

InitFilesystems ==
    {Skeleton \cup {DefinitionsRoot} \cup defs \cup marks :
        defs \in {d \in SUBSET DefCandidates :
                    /\ Cardinality(d) <= MaxEntries
                    /\ \A x, y \in d : x.path = y.path => x = y},
        marks \in SUBSET InitMarkers}
    \cup {Skeleton \cup marks : marks \in SUBSET InitMarkers}

\* No one-shot process is running.
NoRun ==
    [op |-> "none", service |-> <<>>, res |-> OkRes(NoMsg, <<>>), spawned |-> <<>>,
     probed |-> {}, exit |-> 0, before |-> {}, order |-> <<>>, outs |-> <<>>]

\* A caller with no request in flight
NoReq == [pc |-> "idle", action |-> "", kind |-> "", service |-> <<>>, cached |-> FALSE]

\* Nothing is being put on the bus.
NoWire == [msg |-> "none"]

Init ==
    /\ fs \in InitFilesystems
    /\ last = NoRun
    /\ req = [c \in Callers |-> NoReq]
    /\ wire = NoWire
    /\ daemon = "one-shot"

----------------------------------------------------------------------------
(* One-shot mode: main, execute_command, emit_and_exit. `last` is the      *)
(* process that ran: its command, what it printed, its exit code, what it  *)
(* spawned and touched, the filesystem it started from, and what the       *)
(* outside world gave it (the order of read_dir, the outputs of sv).       *)

Ran(op, service, step, f, order, outs) ==
    [op |-> op, service |-> service, res |-> step.res, spawned |-> step.spawned,
     probed |-> step.probed, exit |-> exit_code(step.res), before |-> f,
     order |-> order, outs |-> outs]

\* All orders read_dir may give the entries in
Orders(names) ==
    {o \in [1..Cardinality(names) -> names] : \A i, j \in 1..Cardinality(names) : o[i] = o[j] => i = j}

\* runkitd start|stop|restart|reload|check|once <service>
RunSv(kind, service, out) ==
    /\ last = NoRun
    /\ kind \in SvKinds
    /\ \E step \in {perform_action(fs, kind, service, out)} :
         /\ fs' = step.fs
         /\ last' = Ran(kind, service, step, fs, <<>>, <<out>>)
    /\ UNCHANGED <<req, wire, daemon>>

\* runkitd enable <service>
RunEnable(service) ==
    /\ last = NoRun
    /\ \E step \in {perform_action(fs, "Enable", service, Output(FALSE, FALSE, <<>>, <<>>))} :
         /\ fs' = step.fs
         /\ last' = Ran("Enable", service, step, fs, <<>>, <<>>)
    /\ UNCHANGED <<req, wire, daemon>>

\* runkitd disable <service>
RunDisable(service) ==
    /\ last = NoRun
    /\ \E step \in {perform_action(fs, "Disable", service, Output(FALSE, FALSE, <<>>, <<>>))} :
         /\ fs' = step.fs
         /\ last' = Ran("Disable", service, step, fs, <<>>, <<>>)
    /\ UNCHANGED <<req, wire, daemon>>

\* runkitd list
RunList ==
    /\ last = NoRun
    /\ \E order \in Orders(DirNames(fs, definitions_dir)) :
       \E outs \in [DirNames(fs, definitions_dir) -> StatusOutputs] :
       \E step \in {list(fs, order, outs)} :
           /\ fs' = step.fs
           /\ last' = Ran("List", <<>>, step, fs, order, outs)
    /\ UNCHANGED <<req, wire, daemon>>

\* A direct call of the library's ServiceManager::status
RunStatus(service, out) ==
    /\ last = NoRun
    /\ \E st \in {status(fs, service, out)} :
       \E step \in {Step(FromServiceError(st.res), st.fs, st.spawned, st.probed)} :
         /\ fs' = step.fs
         /\ last' = Ran("Status", service, step, fs, <<>>, <<out>>)
    /\ UNCHANGED <<req, wire, daemon>>

\* runkitd logs <service> --lines <lines>
RunLogs(service, lines, available, have) ==
    /\ last = NoRun
    /\ \E step \in {logs(fs, service, lines, available, have)} :
         /\ fs' = step.fs
         /\ last' = Ran("Logs", service, step, fs, <<>>, <<[lines |-> lines, available |-> available, have |-> have]>>)
    /\ UNCHANGED <<req, wire, daemon>>

\* runkitd describe <service>
RunDescribe(service) ==
    /\ last = NoRun
    /\ \E step \in {describe(fs, service)} :
         /\ fs' = step.fs
         /\ last' = Ran("Describe", service, step, fs, <<>>, <<>>)
    /\ UNCHANGED <<req, wire, daemon>>

\* emit_and_exit: the process is gone, what it did to the filesystem stays.
ProcessExit ==
    /\ last # NoRun
    /\ last' = NoRun
    /\ UNCHANGED <<fs, req, wire, daemon>>

Next ==
    \/ \E kind \in SvKinds, service \in ReqNames, out \in Outputs : RunSv(kind, service, out)
    \/ \E service \in ReqNames : RunEnable(service)
    \/ \E service \in ReqNames : RunDisable(service)
    \/ RunList
    \/ \E service \in ReqNames, out \in Outputs : RunStatus(service, out)
    \/ \E service \in ReqNames, lines \in 0..MaxLines, available \in BOOLEAN, have \in 0..MaxLines :
          RunLogs(service, lines, available, have)
    \/ \E service \in ReqNames : RunDescribe(service)
    \/ ProcessExit

Spec == Init /\ [][Next]_vars

----------------------------------------------------------------------------
(* The bus service: run_dbus_service, RunkitService, authorize.            *)
(* req[c] is caller c's call while its handler waits for the authority;    *)
(* wire is the message a handler has just put on the bus: the check sent   *)
(* to the authority, or the reply to the caller, with what the handler did.*)

\* POLKIT_ACTION_REQUIRE_PASSWORD, POLKIT_ACTION_ALLOW_CACHE
POLKIT_ACTION_REQUIRE_PASSWORD == "tech.geektoshi.Runkit.require_password"

POLKIT_ACTION_ALLOW_CACHE == "tech.geektoshi.Runkit.cached"

\* Display of HelperError (err.to_string()): Other prints its message alone.
to_string(res) ==
    IF res.kind = "Other"
    THEN [tag |-> res.message.tag, command |-> "", text |-> res.message.text]
    ELSE [tag |-> res.kind, command |-> res.command, text |-> res.message.text]

\* HelperResponse::ok_with and HelperResponse::error
HelperResponse(res) ==
    IF res.ok
    THEN [status |-> "ok",
          message |-> [tag |-> res.message.tag, command |-> "", text |-> res.message.text],
          data |-> res.data]
    ELSE [status |-> "error", message |-> to_string(res), data |-> <<>>]

\* An Err handed to the bus as a fault instead of an envelope
serialize_response_faults(res) == [fault |-> ~res.ok, body |-> HelperResponse(res)]

\* serialize_response: the method's return value. serde_json::to_string of a
\* HelperResponse (strings and a serde_json::Value) has no failing case, so
\* the fdo::Error::Failed branch is never taken.
serialize_response(res) == [fault |-> FALSE, body |-> HelperResponse(res)]

\* authorize, lines 90-95: the connection, the proxy, the subject
authorize_setup(pre) ==
    CASE pre = "connection" -> Msg("polkit connection error", <<>>)
      [] pre = "proxy" -> Msg("polkit proxy error", <<>>)
      [] pre = "subject" -> Msg("polkit subject error", <<>>)
      [] OTHER -> NoMsg

\* authorize with the two refusals told apart wrongly: a challenge that was
\* not completed passes.
authorize_answer_challenge_passes(answer) ==
    IF answer.failed THEN Msg("polkit check failed", <<>>)
    ELSE IF answer.is_authorized \/ answer.is_challenge THEN NoMsg
    ELSE Msg("Authorization denied", <<>>)

\* authorize, lines 97-107: the authority's answer; NoMsg is Ok(())
authorize_answer(answer) ==
    IF answer.failed THEN Msg("polkit check failed", <<>>)
    ELSE IF answer.is_authorized THEN NoMsg
    ELSE IF answer.is_challenge THEN Msg("Authentication was dismissed or failed", <<>>)
    ELSE Msg("Authorization denied", <<>>)

\* What the authority may answer to one check_authorization call
Answers ==
    {[failed |-> TRUE, is_authorized |-> FALSE, is_challenge |-> FALSE]}
    \cup {[failed |-> FALSE, is_authorized |-> a, is_challenge |-> ch] : a, ch \in BOOLEAN}

\* The action names and service names bus callers pass
IpcActions == {"start", "stop", "restart", "reload", "check", "once", "enable",
               "disable", "Start", "bogus"}

IpcNames == {<<"a">>, <<"a", "!">>}

IpcOutputs ==
    {Output(FALSE, FALSE, <<>>, <<>>),
     Output(TRUE, TRUE, <<>>, <<>>),
     Output(TRUE, FALSE, <<>>, <<"e", "r", "r", "\n">>)}

\* The reply a handler returns to caller c, with what the handler did.
Reply(c, method, service, answer, dispatched, step, f) ==
    [msg |-> "reply", caller |-> c, method |-> method, service |-> service,
     answer |-> answer, dispatched |-> dispatched, res |-> step.res,
     spawned |-> step.spawned, wrote |-> step.fs # f,
     response |-> serialize_response(step.res)]

\* A PerformAction reply, with the action name the call carried
ActionReply(c, action, service, answer, dispatched, step, f) ==
    Reply(c, "PerformAction", service, answer, dispatched, step, f) @@ [action |-> action]

\* The CheckAuthorization call a handler sends to the authority
Check(c, action, cached, id, details) ==
    [msg |-> "check", caller |-> c, action |-> action, cached |-> cached,
     action_id |-> id, details |-> details]

\* The policy action that lets a cached confirmation pass, whatever the flag
action_id_always_cached(allow_cached_authorization) == POLKIT_ACTION_ALLOW_CACHE

\* perform_action, lines 55-59: the policy action of this call
action_id(allow_cached_authorization) ==
    IF allow_cached_authorization
    THEN POLKIT_ACTION_ALLOW_CACHE
    ELSE POLKIT_ACTION_REQUIRE_PASSWORD


InitIpc ==
    /\ fs \in {Skeleton \cup {DefinitionsRoot, Entry(Append(definitions_dir, <<"a">>), "dir", <<>>)}
                 \cup marks : marks \in SUBSET {Marker(<<"a">>)}}
    /\ last = NoRun
    /\ req = [c \in Callers |-> NoReq]
    /\ wire = NoWire
    /\ daemon = "serving"

\* RunkitService::perform_action up to the blocking check_authorization call
PerformAction(c, action, service, allow_cached_authorization, pre) ==
    /\ daemon = "serving" /\ wire = NoWire
    /\ req[c].pc = "idle"
    /\ \E kind \in {ActionKind_parse(action)} :
          IF kind = "None"
          THEN /\ wire' = ActionReply(c, action, service, None, FALSE,
                                      Step(ErrRes("Other", "", Msg("Unsupported action", <<>>)), fs, <<>>, {}), fs)
               /\ req' = req
          ELSE IF authorize_setup(pre) # NoMsg
          THEN /\ wire' = ActionReply(c, action, service, None, FALSE,
                                      Step(ErrRes("Other", "", authorize_setup(pre)), fs, <<>>, {}), fs)
               /\ req' = req
          ELSE /\ wire' = Check(c, action, allow_cached_authorization,
                                action_id(allow_cached_authorization),
                                [service |-> service, operation |-> as_str(kind)])
               /\ req' = [req EXCEPT ![c] = [pc |-> "auth", action |-> action, kind |-> kind,
                                             service |-> service,
                                             cached |-> allow_cached_authorization]]
    /\ UNCHANGED <<fs, last, daemon>>

\* RunkitService::perform_action from the authority's answer on
AuthorityAnswers(c, answer, out) ==
    /\ daemon = "serving" /\ wire = NoWire
    /\ req[c].pc = "auth"
    /\ \E refused \in {authorize_answer(answer)} :
       \E step \in {IF refused # NoMsg
                    THEN Step(ErrRes("Other", "", refused), fs, <<>>, {})
                    ELSE perform_action(fs, req[c].kind, req[c].service, out)} :
          /\ fs' = step.fs
          /\ wire' = ActionReply(c, req[c].action, req[c].service, Some(answer),
                                 refused = NoMsg, step, fs)
    /\ req' = [req EXCEPT ![c] = NoReq]
    /\ UNCHANGED <<last, daemon>>

\* RunkitService::list_services
ListServices(c) ==
    /\ daemon = "serving" /\ wire = NoWire
    /\ req[c].pc = "idle"
    /\ \E order \in Orders(DirNames(fs, definitions_dir)) :
       \E outs \in [DirNames(fs, definitions_dir) -> StatusOutputs] :
         wire' = Reply(c, "ListServices", <<>>, None, FALSE, list(fs, order, outs), fs)
    /\ UNCHANGED <<fs, last, req, daemon>>

\* RunkitService::fetch_logs
FetchLogs(c, service, lines, available, have) ==
    /\ daemon = "serving" /\ wire = NoWire
    /\ req[c].pc = "idle"
    /\ wire' = Reply(c, "FetchLogs", service, None, FALSE,
                     logs(fs, service, lines, available, have), fs)
    /\ UNCHANGED <<fs, last, req, daemon>>

\* RunkitService::fetch_description
FetchDescription(c, service) ==
    /\ daemon = "serving" /\ wire = NoWire
    /\ req[c].pc = "idle"
    /\ wire' = Reply(c, "FetchDescription", service, None, FALSE, describe(fs, service), fs)
    /\ UNCHANGED <<fs, last, req, daemon>>

\* The reply is on its way to the caller.
Deliver ==
    /\ wire # NoWire
    /\ wire' = NoWire
    /\ UNCHANGED <<fs, last, req, daemon>>

\* run_dbus_service: the main thread's loop around thread::park_timeout
ParkTimeout ==
    /\ daemon = "serving"
    /\ daemon' = "serving"
    /\ UNCHANGED <<fs, last, req, wire>>

NextIpc ==
    \/ \E c \in Callers, action \in IpcActions, service \in IpcNames,
          cached \in BOOLEAN, pre \in {"ok", "connection", "proxy", "subject"} :
          PerformAction(c, action, service, cached, pre)
    \/ \E c \in Callers, answer \in Answers, out \in IpcOutputs : AuthorityAnswers(c, answer, out)
    \/ \E c \in Callers : ListServices(c)
    \/ \E c \in Callers, service \in IpcNames, lines \in 0..MaxLines,
          available \in BOOLEAN, have \in 0..MaxLines :
          FetchLogs(c, service, lines, available, have)
    \/ \E c \in Callers, service \in IpcNames : FetchDescription(c, service)
    \/ Deliver
    \/ ParkTimeout

SpecIpc == InitIpc /\ [][NextIpc]_vars

----------------------------------------------------------------------------
(* The library called directly: ServiceManager::validate_service_name and  *)
(* ServiceRuntimeState::from_sv_status are public functions of runkit-core.*)
(* `last` is the call that returned: its argument and its result.          *)

\* The characters names are built from: letters, a digit, the three marks the
\* validator names, a separator, a mark it does not name, a space, a letter
\* that is not ASCII (U+00E9, e with acute).
NameChars == {"a", "Z", "0", "-", "_", ".", "/", "!", " ", "U+00E9"}

\* The longest name built from NameChars
MaxNameLen == 2

\* The names validate_service_name is given: every name of up to MaxNameLen
\* characters, and the names of the unit test and of the interface
\* description
ValidateNames ==
    UNION {[1..n -> NameChars] : n \in 0..MaxNameLen}
    \cup {<<"v", "a", "l", "i", "d", "_", "n", "a", "m", "e", "-", "0", "1">>,
           <<".", ".", "/", "b", "a", "d">>,
           <<"a", "/", "b">>,
           <<"x", ".", "y", "_", "z">>}

\* Service names in a status line
LineNames == {<<"a">>,
              <<"n", "o", "r", "m", "a", "l", "l", "y", " ", "u", "p">>}

\* Process ids in a status line: small, with leading zeros, u32::MAX, one
\* above it, a decimal digit that is not ASCII
LinePids == {<<"7">>,
             <<"0", "0", "7">>,
             <<"4", "2", "9", "4", "9", "6", "7", "2", "9", "5">>,
             <<"4", "2", "9", "4", "9", "6", "7", "2", "9", "6">>,
             <<ArabicThree>>}

\* Seconds in a status line: small, u64::MAX, one above it, a decimal digit
\* that is not ASCII
LineSeconds == {<<"3">>,
                <<"1", "8", "4", "4", "6", "7", "4", "4", "0", "7", "3", "7", "0", "9", "5", "5", "1", "6", "1", "5">>,
                <<"1", "8", "4", "4", "6", "7", "4", "4", "0", "7", "3", "7", "0", "9", "5", "5", "1", "6", "1", "6">>,
                <<ArabicThree>>}

\* Exit codes in a status line: i32::MAX, one above it, i32::MIN, one below it
LineCodes == {<<"1">>,
              <<"-", "1">>,
              <<"2", "1", "4", "7", "4", "8", "3", "6", "4", "7">>,
              <<"2", "1", "4", "7", "4", "8", "3", "6", "4", "8">>,
              <<"-", "2", "1", "4", "7", "4", "8", "3", "6", "4", "8">>,
              <<"-", "2", "1", "4", "7", "4", "8", "3", "6", "4", "9">>}

\* What follows the seconds of a run: and of a down: line
RunTails == {<<>>,
             <<";", " ", "r", "u", "n", ":", " ", "l", "o", "g", ":", " ", "(", "p", "i", "d", " ", "9", ")", " ", "1", "s">>}

DownTails == {<<>>,
              <<",", " ", "n", "o", "r", "m", "a", "l", "l", "y", " ", "u", "p">>,
              <<",", " ", "n", "o", "r", "m", "a", "l", "l", "y", " ", "d", "o", "w", "n">>}

\* What stands before the line and after it: nothing; blanks and a second
\* line; a line end
Wraps ==
    {<<<<>>, <<>>>>,
     <<<<" ", " ">>, <<" ", "\r", "\n", "d", "o", "w", "n", ":", " ", "b", ":", " ", "1", "s", ",", " ", "n", "o", "r", "m", "a", "l", "l", "y", " ", "u", "p", "\n">>>>,
     <<<<>>, <<"\n">>>>}

\* One input of from_sv_status: the text, and what it was built from
StatusLine(kind, name, pid, seconds, code, tail, wrap, line) ==
    [kind |-> kind, name |-> name, pid |-> pid, seconds |-> seconds, code |-> code,
     tail |-> tail, pre |-> wrap[1], post |-> wrap[2], line |-> line,
     text |-> wrap[1] \o line \o wrap[2]]

\* run: <name>: (pid <pid>) <seconds>s<tail>
RunLines ==
    {StatusLine("run", name, pid, seconds, <<>>, tail, wrap,
                <<"r", "u", "n", ":", " ">> \o name \o <<":", " ", "(", "p", "i", "d", " ">> \o pid \o <<")", " ">>
                \o seconds \o <<"s">> \o tail) :
        name \in LineNames, pid \in LinePids, seconds \in LineSeconds,
        tail \in RunTails, wrap \in Wraps}

\* down: <name>: <seconds>s<tail>
DownLines ==
    {StatusLine("down", name, <<>>, seconds, <<>>, tail, wrap,
                <<"d", "o", "w", "n", ":", " ">> \o name \o <<":", " ">> \o seconds \o <<"s">> \o tail) :
        name \in LineNames, seconds \in LineSeconds, tail \in DownTails, wrap \in Wraps}

\* fail: <name>: (pid <pid>) <seconds>s, exit <code>
FailLines ==
    {StatusLine("fail", <<"a">>, pid, seconds, code, <<>>, wrap,
                <<"f", "a", "i", "l", ":", " ", "a", ":", " ", "(", "p", "i", "d", " ">> \o pid \o <<")", " ">> \o seconds
                \o <<"s", ",", " ", "e", "x", "i", "t", " ">> \o code) :
        pid \in LinePids, seconds \in LineSeconds, code \in LineCodes, wrap \in Wraps}

\* Texts of no grammar: the empty text, blanks, an empty first line before a
\* status line, a keyword alone, a wrong keyword, a grammar cut short
OtherLines ==
    {StatusLine("other", <<>>, <<>>, <<>>, <<>>, <<>>, <<<<>>, <<>>>>, text) : text \in
       {<<>>,
         <<" ", " ">>,
         <<"\n", "r", "u", "n", ":", " ", "a", ":", " ", "(", "p", "i", "d", " ", "7", ")", " ", "3", "s", "\n">>,
         <<" ", "\t", "\n">>,
         <<"r", "u", "n">>,
         <<"r", "u", "n", ":", " ", "a">>,
         <<"R", "U", "N", ":", " ", "a", ":", " ", "(", "p", "i", "d", " ", "7", ")", " ", "3", "s">>,
         <<"r", "u", "n", ":", "a", ":", " ", "(", "p", "i", "d", " ", "7", ")", " ", "3", "s">>,
         <<"r", "u", "n", ":", " ", "a", ":", " ", "(", "p", "i", "d", " ", "7", ")", " ", "3">>,
         <<"r", "u", "n", ":", " ", "a", ":", " ", "(", "p", "i", "d", " ", "-", "7", ")", " ", "3", "s">>,
         <<"r", "u", "n", ":", " ", ":", " ", "(", "p", "i", "d", " ", "7", ")", " ", "3", "s">>,
         <<"d", "o", "w", "n", ":", " ", "a", ":", " ", "s">>,
         <<"d", "o", "w", "n", ":", " ", "a", ":", " ", "3", " ", "s">>,
         <<"f", "a", "i", "l", ":", " ", "a", ":", " ", "(", "p", "i", "d", " ", "7", ")", " ", "3", "s">>,
         <<"f", "a", "i", "l", ":", " ", "a", ":", " ", "(", "p", "i", "d", " ", "7", ")", " ", "3", "s", ",", " ", "e", "x", "i", "t">>,
         <<"f", "a", "i", "l", ":", " ", "a", ":", " ", "(", "p", "i", "d", " ", "7", ")", " ", "3", "s", ",", " ", "e", "x", "i", "t", " ", "x">>,
         <<"o", "k", ":", " ", "a", ":", " ", "3", "s">>,
         <<" ", " ", "w", "a", "r", "n", "i", "n", "g", ":", " ", "a", ":", " ", "u", "n", "a", "b", "l", "e", " ", "t", "o", " ", "o", "p", "e", "n", " ", "s", "u", "p", "e", "r", "v", "i", "s", "e", "/", "o", "k", " ", " ", "\n">>}}

InitLib ==
    /\ fs = Skeleton \cup {DefinitionsRoot}
    /\ last = NoRun
    /\ req = [c \in Callers |-> NoReq]
    /\ wire = NoWire
    /\ daemon = "library"

\* ServiceManager::validate_service_name(name)
Validate(name) ==
    /\ last = NoRun
    /\ last' = Ran("Validate", name,
                   Step(IF validate_service_name(name)
                        THEN OkRes(NoMsg, <<>>)
                        ELSE ErrRes("InvalidServiceName", "", Msg("invalid service name", name)),
                        fs, <<>>, {}),
                   fs, <<>>, <<>>)
    /\ UNCHANGED <<fs, req, wire, daemon>>

\* ServiceRuntimeState::from_sv_status(input.text)
Parse(input) ==
    /\ last = NoRun
    /\ last' = Ran("Parse", <<>>, Step(OkRes(NoMsg, from_sv_status(input.text)), fs, <<>>, {}),
                   fs, <<>>, <<input>>)
    /\ UNCHANGED <<fs, req, wire, daemon>>

\* The call has returned and its result is dropped.
Return ==
    /\ last # NoRun
    /\ last' = NoRun
    /\ UNCHANGED <<fs, req, wire, daemon>>

NextLib ==
    \/ \E name \in ValidateNames : Validate(name)
    \/ \E input \in RunLines \cup DownLines \cup FailLines \cup OtherLines : Parse(input)
    \/ Return

SpecLib == InitLib /\ [][NextLib]_vars

----------------------------------------------------------------------------
(* Concurrent requests: several runkitd processes (or handlers) run enable *)
(* and disable at once. Each call of the filesystem is one step, and the   *)
(* steps of different requests interleave. Here req[c] is request c: the   *)
(* line it is at, what it returns, the filesystem it started from and the  *)
(* filesystem calls it has made.                                           *)

\* The names concurrent requests are for: "a", "..", "a!"
RaceNames == {<<"a">>, <<".", ".">>, <<"a", "!">>}

\* Request c at line pc of enable or disable
At(c, pc, op, service, res, before, calls) ==
    [req EXCEPT ![c] = [pc |-> pc, op |-> op, service |-> service, res |-> res,
                        before |-> before, calls |-> calls]]

\* The filesystems the requests start from: the definition of "a" present
\* or not, its marker present or not
InitRace ==
    /\ fs \in {Skeleton \cup {DefinitionsRoot} \cup defs \cup marks :
                 defs \in SUBSET {Entry(Append(definitions_dir, <<"a">>), "dir", <<>>)},
                 marks \in SUBSET {Marker(<<"a">>)}}
    /\ last = NoRun
    /\ req = [c \in Callers |-> NoReq]
    /\ wire = NoWire
    /\ daemon = "concurrent"

\* enable, lines 230-237: validate_service_name and src.exists()
EnableTestsDefinition(c, service) ==
    /\ daemon = "concurrent"
    /\ req[c].pc = "idle"
    /\ req' = IF ~validate_service_name(service)
              THEN At(c, "done", "Enable", service,
                      ErrRes("InvalidService", "", Msg("invalid service name", service)),
                      fs, <<>>)
              ELSE IF ~Exists(fs, Join(definitions_dir, service))
              THEN At(c, "done", "Enable", service,
                      ErrRes("DefinitionMissing", "", Msg("service definition missing", service)),
                      fs, <<"src.exists">>)
              ELSE At(c, "dest.exists", "Enable", service, OkRes(NoMsg, <<>>),
                      fs, <<"src.exists">>)
    /\ UNCHANGED <<fs, last, wire, daemon>>

\* enable, lines 239-242: dest.exists()
EnableTestsMarker(c) ==
    /\ req[c].pc = "dest.exists" /\ req[c].op = "Enable"
    /\ req' = IF Exists(fs, Join(enabled_dir, req[c].service))
              THEN At(c, "done", "Enable", req[c].service,
                      ErrRes("AlreadyEnabled", "", Msg("service already enabled", req[c].service)),
                      req[c].before, Append(req[c].calls, "dest.exists"))
              ELSE At(c, "symlink", "Enable", req[c].service, OkRes(NoMsg, <<>>),
                      req[c].before, Append(req[c].calls, "dest.exists"))
    /\ UNCHANGED <<fs, last, wire, daemon>>

\* enable, lines 244-251: symlink(src, dest)
EnableLinks(c) ==
    /\ req[c].pc = "symlink"
    /\ fs' = Symlink(fs, Join(definitions_dir, req[c].service), Join(enabled_dir, req[c].service))
    /\ req' = At(c, "done", "Enable", req[c].service,
                 IF SymlinkFails(fs, Join(enabled_dir, req[c].service))
                 THEN ErrRes("Io", "", Msg("I/O error at dest", <<>>))
                 ELSE OkRes(Msg("Enabled service", req[c].service), <<>>),
                 req[c].before, Append(req[c].calls, "symlink"))
    /\ UNCHANGED <<last, wire, daemon>>

\* disable, lines 255-259: validate_service_name and dest.exists()
DisableTestsMarker(c, service) ==
    /\ daemon = "concurrent"
    /\ req[c].pc = "idle"
    /\ req' = IF ~validate_service_name(service)
              THEN At(c, "done", "Disable", service,
                      ErrRes("InvalidService", "", Msg("invalid service name", service)),
                      fs, <<>>)
              ELSE IF ~Exists(fs, Join(enabled_dir, service))
              THEN At(c, "done", "Disable", service,
                      ErrRes("NotEnabled", "", Msg("service is not enabled", service)),
                      fs, <<"dest.exists">>)
              ELSE At(c, "remove_file", "Disable", service, OkRes(NoMsg, <<>>),
                      fs, <<"dest.exists">>)
    /\ UNCHANGED <<fs, last, wire, daemon>>

\* disable, lines 261-268: remove_file(dest)
DisableRemoves(c) ==
    /\ req[c].pc = "remove_file"
    /\ fs' = RemoveFile(fs, Join(enabled_dir, req[c].service))
    /\ req' = At(c, "done", "Disable", req[c].service,
                 IF RemoveFileFails(fs, Join(enabled_dir, req[c].service))
                 THEN ErrRes("Io", "", Msg("I/O error at dest", <<>>))
                 ELSE OkRes(Msg("Disabled service", req[c].service), <<>>),
                 req[c].before, Append(req[c].calls, "remove_file"))
    /\ UNCHANGED <<last, wire, daemon>>

NextRace ==
    \/ \E c \in Callers, service \in RaceNames : EnableTestsDefinition(c, service)
    \/ \E c \in Callers : EnableTestsMarker(c)
    \/ \E c \in Callers : EnableLinks(c)
    \/ \E c \in Callers, service \in RaceNames : DisableTestsMarker(c, service)
    \/ \E c \in Callers : DisableRemoves(c)

SpecRace == InitRace /\ [][NextRace]_vars

----------------------------------------------------------------------------
(* Claims                                                                  *)

\* The characters the specification's whitelist names: A-Z a-z 0-9 - _ .
Whitelist == Upper \cup Lower \cup Digits \cup {"-", "_", "."}

\* A name the whitelist takes
Accepted(name) == name # <<>> /\ \A i \in 1..Len(name) : name[i] \in Whitelist

\* The authority's answer to the call the reply on the wire belongs to
Answered(a, c) ==
    /\ wire.msg = "reply" /\ wire.method = "PerformAction"
    /\ wire.answer.some /\ ~wire.answer.val.failed
    /\ wire.answer.val.is_authorized = a
    /\ wire.answer.val.is_challenge = c

\* C1: a PerformAction handler runs the dispatcher only when the authority
\* answered "authorized" to that call; a challenge that was not completed is
\* answered with the error "Authentication was dismissed or failed", a denial
\* with the error "Authorization denied", and in both cases the handler
\* spawned no command and changed no filesystem entry.
C1_DispatchOnlyWhenAuthorized ==
    /\ (wire.msg = "reply" /\ wire.method = "PerformAction" /\ wire.dispatched)
          => (wire.answer.some /\ ~wire.answer.val.failed /\ wire.answer.val.is_authorized)
    /\ \A ch \in BOOLEAN :
          Answered(FALSE, ch) =>
             /\ wire.response.body.status = "error"
             /\ wire.response.body.message.tag =
                   (IF ch THEN "Authentication was dismissed or failed" ELSE "Authorization denied")
             /\ ~wire.dispatched
             /\ wire.spawned = <<>>
             /\ ~wire.wrote

\* C1 witness: a call about the defined, not enabled service "a" was refused
\* because the challenge was not completed.
C1_Witness ==
    /\ Answered(FALSE, TRUE)
    /\ wire.service = <<"a">>
    /\ wire.response.body.status = "error"
    /\ ~HasEntry(fs, Append(enabled_dir, <<"a">>))

\* C2: status, Start/Stop/Restart/Reload/Check/Once, Enable and Disable on a
\* name the whitelist rejects fail with InvalidName, having spawned no command
\* and having touched and changed nothing in the filesystem.
C2_InvalidNameNoSideEffect ==
    (last.op \in ActionKinds \cup {"Status"} /\ ~Accepted(last.service)) =>
       /\ ~last.res.ok
       /\ last.res.kind = "InvalidService"
       /\ last.spawned = <<>>
       /\ last.probed = {}
       /\ fs = last.before

\* C2 witness: `start ../a` was rejected although sv would have run.
C2_Witness ==
    /\ last.op = "Start"
    /\ last.service = <<".", ".", "/", "a">>
    /\ last.outs[1].spawned /\ last.outs[1].success
    /\ last.res.kind = "InvalidService"

\* C3 (as claimed): every path Enable or Disable hands to the filesystem for
\* an accepted name is an immediate child entry of the definitions root or of
\* the enabled root.
C3_AcceptedNameStaysInRoots ==
    (last.op \in {"Enable", "Disable"} /\ Accepted(last.service)) =>
       \A p \in last.probed : IsChildOf(p, definitions_dir) \/ IsChildOf(p, enabled_dir)

\* definitions_root/name and enabled_root/name, the name one component
DefinitionOf(name) == Append(definitions_dir, name)

MarkerOf(name) == Append(enabled_dir, name)

C5_EnableFailures ==
    (last.op = "Enable" /\ Accepted(last.service)) =>
       /\ ~Exists(last.before, DefinitionOf(last.service))
             => (~last.res.ok /\ last.res.kind = "DefinitionMissing" /\ fs = last.before)
       /\ (Exists(last.before, DefinitionOf(last.service))
             /\ Exists(last.before, MarkerOf(last.service)))
             => (~last.res.ok /\ last.res.kind = "AlreadyEnabled" /\ fs = last.before)

\* C5 witness: `enable a` failed with DefinitionMissing while a marker named
\* "a" was in the enabled root.
C5_Witness ==
    /\ last.op = "Enable" /\ last.service = <<"a">>
    /\ last.res.kind = "DefinitionMissing"
    /\ HasEntry(last.before, MarkerOf(<<"a">>))

\* The Disable part of C6 for one run of disable
DisableAsClaimed ==
    (last.op = "Disable" /\ Accepted(last.service)) =>
       /\ ~Exists(last.before, MarkerOf(last.service))
             => (~last.res.ok /\ last.res.kind = "NotEnabled" /\ fs = last.before)
       /\ Exists(last.before, MarkerOf(last.service))
             => /\ last.res.ok
                /\ ~Exists(fs, MarkerOf(last.service))
                /\ \E e \in last.before : e.path = Canon(MarkerOf(last.service))
                                          /\ fs = last.before \ {e}

\* The enumeration part of C6: a name without an entry in the enabled root is
\* reported with enabled = false and desired_state = manual.
ListAfterDisableAsClaimed ==
    (last.op = "List" /\ last.res.ok) =>
       \A i \in 1..Len(last.res.data) :
          ~Exists(last.before, MarkerOf(last.res.data[i].name))
             => (~last.res.data[i].enabled /\ last.res.data[i].desired_state = "manual")

\* C6 (as claimed): Disable of an accepted name fails with NotEnabled,
\* changing nothing, when enabled_root/name does not exist, and removes exactly
\* that entry when it exists; an enumeration that finds no such entry reports
\* enabled = false and desired_state = manual for the name.
C6_DisableRemovesEntry == DisableAsClaimed /\ ListAfterDisableAsClaimed

\* The immediate entries of the definitions root that are directories whose
\* name does not begin with '.'
ServiceDirs(f) ==
    {n \in DirNames(f, definitions_dir) :
        IsDir(f, DefinitionOf(n)) /\ ~(n # <<>> /\ Head(n) = ".")}

\* The records of a successful enumeration are those of `names`, one each, in
\* ascending byte order, each with the enabled flag and desired_state that the
\* enabled root gives its name.
ListedExactly(names) ==
    LET data == last.res.data IN
    /\ Len(data) = Cardinality(names)
    /\ {data[i].name : i \in 1..Len(data)} = names
    /\ \A i, j \in 1..Len(data) : i < j => BytesLess(data[i].name, data[j].name)
    /\ \A i \in 1..Len(data) :
          /\ data[i].enabled = Exists(last.before, MarkerOf(data[i].name))
          /\ data[i].desired_state = (IF data[i].enabled THEN "auto_start" ELSE "manual")

\* C7 (as claimed): when every status query succeeds, list() returns exactly
\* one record per directory of the definitions root whose name does not begin
\* with '.', sorted by name in ascending byte order, enabled and auto_start
\* exactly when the enabled root has an entry of that name.
C7_ListOnePerDirectory ==
    (last.op = "List" /\ last.res.ok) => ListedExactly(ServiceDirs(last.before))

\* C7 (amended): the same, for the directories whose name is valid UTF-8; a
\* directory with any other name is left out without an error.
C7_ListOnePerUtf8Directory ==
    (last.op = "List" /\ last.res.ok) =>
       ListedExactly({n \in ServiceDirs(last.before) : to_str_is_some(n)})

\* C7 witness: an enumeration gave "a" (enabled) and "b" (not enabled), read
\* in the order b, a, next to a hidden directory.
C7_Witness ==
    /\ last.op = "List" /\ last.res.ok
    /\ Len(last.res.data) = 2
    /\ last.res.data[1].enabled /\ ~last.res.data[2].enabled
    /\ \E i, j \in 1..Len(last.order) :
          i < j /\ last.order[i] = <<"b">> /\ last.order[j] = <<"a">>
    /\ <<".", "a">> \in DirNames(last.before, definitions_dir)

\* The positions, in the order read_dir gave, of the entries list() queries
\* whose status query fails
FailingEntries ==
    {i \in 1..Len(last.order) :
        /\ last.order[i] \in ServiceDirs(last.before)
        /\ to_str_is_some(last.order[i])
        /\ ~status(last.before, last.order[i], last.outs[last.order[i]]).res.ok}

C9_FailuresAreEnvelopes ==
    /\ daemon = "serving"
    /\ wire.msg = "reply" =>
          /\ ~wire.response.fault
          /\ wire.response.body.status = (IF wire.res.ok THEN "ok" ELSE "error")
          /\ ~wire.res.ok => wire.response.body.message.tag # ""
    /\ wire = NoWire =>
          \A c \in Callers : req[c].pc = "idle" => ENABLED FetchDescription(c, <<"a">>)

\* C9 witness: the supervisor command of an authorized call failed and the
\* caller got an error envelope.
C9_Witness ==
    /\ wire.msg = "reply" /\ wire.method = "PerformAction" /\ wire.dispatched
    /\ wire.res.kind = "SvFailure"
    /\ wire.response.body.status = "error"
    /\ ~wire.response.fault

\* The action names the interface recognizes
RecognizedActions == {"start", "stop", "restart", "reload", "check", "once", "enable", "disable"}

\* C11: a PerformAction call whose action name is not one of the eight
\* recognized names is answered at once with the error envelope "Unsupported
\* action": the authority is not asked (no check is sent and the handler never
\* waits for an answer) and the dispatcher does not run (nothing is spawned,
\* nothing is written).
C11_UnsupportedActionRejected ==
    /\ wire.msg = "check" => wire.action \in RecognizedActions
    /\ \A c \in Callers : req[c].pc = "auth" => req[c].action \in RecognizedActions
    /\ (wire.msg = "reply" /\ wire.method = "PerformAction"
          /\ wire.action \notin RecognizedActions) =>
          /\ wire.response.body.status = "error"
          /\ wire.response.body.message.tag = "Unsupported action"
          /\ ~wire.response.fault
          /\ ~wire.answer.some
          /\ ~wire.dispatched
          /\ wire.spawned = <<>>
          /\ ~wire.wrote

\* C11 witness: a call with the action name "Start" (the case is wrong) was
\* answered while another caller's recognized call waits for the authority.
C11_Witness ==
    /\ wire.msg = "reply" /\ wire.method = "PerformAction"
    /\ wire.action = "Start"
    /\ wire.response.body.message.tag = "Unsupported action"
    /\ \E c \in Callers : req[c].pc = "auth"

\* C12: each PerformAction call with a recognized action asks the authority
\* exactly once: the check carries the "cached" policy action if and only if
\* this call's allow_cached flag is true and the "require_password" action
\* otherwise, whatever the calls before or beside it asked for, and its
\* details hold exactly the keys service and operation; a check is sent only
\* for a call that has not asked yet, and a call that has asked ends with its
\* reply, never with a second check. The one call that is answered without a
\* check is the call whose connection to the authority could not be set up.
C12_OneCheckPerCall ==
    /\ [](wire.msg = "check" =>
            /\ wire.action \in RecognizedActions
            /\ wire.action_id = (IF wire.cached
                                 THEN "tech.geektoshi.Runkit.cached"
                                 ELSE "tech.geektoshi.Runkit.require_password")
            /\ DOMAIN wire.details = {"service", "operation"}
            /\ wire.details.operation = wire.action
            /\ wire.details.service = req[wire.caller].service
            /\ req[wire.caller].pc = "auth"
            /\ req[wire.caller].cached = wire.cached)
    /\ []((wire.msg = "reply" /\ wire.method = "PerformAction"
             /\ wire.action \in RecognizedActions /\ ~wire.answer.some) =>
            wire.res.message.tag \in {"polkit connection error", "polkit proxy error",
                                      "polkit subject error"})
    /\ [][/\ (wire'.msg = "check" /\ wire' # wire) => req[wire'.caller].pc = "idle"
          /\ \A c \in Callers :
                (req[c].pc = "auth" /\ req'[c] # req[c]) =>
                   /\ req'[c].pc = "idle"
                   /\ wire'.msg = "reply" /\ wire'.caller = c /\ wire'.answer.some]_vars

\* C12 witness: a call that does not allow a cached confirmation asks the
\* authority with the "require_password" action while another caller's call,
\* which allowed it, still waits for its own answer.
C12_Witness ==
    /\ wire.msg = "check" /\ ~wire.cached
    /\ wire.action_id = POLKIT_ACTION_REQUIRE_PASSWORD
    /\ \E c \in Callers : c # wire.caller /\ req[c].pc = "auth" /\ req[c].cached

\* The subcommand the specification gives for each supervisor action
SubcommandOf(kind) ==
    CASE kind = "Start" -> "up"
      [] kind = "Stop" -> "down"
      [] kind = "Restart" -> "restart"
      [] kind = "Reload" -> "reload"
      [] kind = "Check" -> "check"
      [] kind = "Once" -> "once"

\* C13: for a valid name, each of Start, Stop, Restart, Reload, Check, Once
\* runs the supervisor command once, with the subcommand up, down, restart,
\* reload, check, once and the name as its one further argument; the action
\* succeeds exactly when the process exits successfully, and otherwise the
\* error is a supervisor-command failure with the subcommand, the name and
\* the captured standard error, or an exit-status message when there is none
\* (a process that could not be started at all is a filesystem error and
\* nothing has run). Enable and Disable never run the supervisor command.
C13_SupervisorActions ==
    /\ (last.op \in SvKinds /\ Accepted(last.service)) =>
          /\ last.outs[1].spawned =>
                /\ last.spawned = <<[program |-> "sv", subcommand |-> SubcommandOf(last.op),
                                     arg |-> last.service]>>
                /\ last.res.ok <=> last.outs[1].success
                /\ ~last.outs[1].success =>
                      /\ last.res.kind = "SvFailure"
                      /\ last.res.command = SubcommandOf(last.op)
                      /\ last.res.service = last.service
                      /\ last.res.message =
                            (IF Trim(last.outs[1].stderr) = <<>>
                             THEN Msg("exit status", <<>>)
                             ELSE Msg("stderr", Trim(last.outs[1].stderr)))
          /\ ~last.outs[1].spawned =>
                /\ last.spawned = <<>>
                /\ ~last.res.ok /\ last.res.kind = "Io"
          /\ fs = last.before
    /\ last.op \in {"Enable", "Disable"} => last.spawned = <<>>

\* C13 witness: "stop a" ran "sv down a", which failed with text on its
\* standard error.
C13_Witness ==
    /\ last.op = "Stop" /\ last.service = <<"a">>
    /\ last.spawned = <<Spawn("down", <<"a">>)>>
    /\ last.res.kind = "SvFailure"
    /\ last.res.message = Msg("stderr", <<"e", "r", "r">>)

\* A command of the kind the claim is about ran: a status query or a supervisor
\* action with an accepted name whose process was started.
CommandRan(ops) ==
    /\ last.op \in ops
    /\ Accepted(last.service)
    /\ last.outs[1].spawned

\* C14 as stated: for the status query and for action dispatch alike, any
\* non-empty standard error makes the operation fail, whatever the exit code.
C14_StderrFailsBoth ==
    (CommandRan(SvKinds \cup {"Status"}) /\ last.outs[1].stderr # <<>>) => ~last.res.ok

\* C14, amended: the status query fails on any standard error that is not
\* blank, whatever the exit code, with that text as the message; with a blank
\* standard error it fails on a blank standard output, and otherwise its
\* result is the parser applied to the standard output. Action dispatch
\* succeeds exactly when the process exits successfully, whatever the
\* standard error holds.
C14_StderrFailsStatusOnly ==
    /\ CommandRan({"Status"}) =>
          IF Trim(last.outs[1].stderr) # <<>>
          THEN /\ ~last.res.ok
               /\ last.res.kind = "SvFailure" /\ last.res.command = "status"
               /\ last.res.message = Msg("stderr", Trim(last.outs[1].stderr))
          ELSE IF Trim(last.outs[1].stdout) = <<>>
          THEN /\ ~last.res.ok
               /\ last.res.kind = "SvFailure" /\ last.res.command = "status"
               /\ last.res.message.tag = "sv status returned no output"
          ELSE /\ last.res.ok
               /\ last.res.data = from_sv_status(last.outs[1].stdout)
    /\ CommandRan(SvKinds) => (last.res.ok <=> last.outs[1].success)

\* C14 witness: a status query whose process exited successfully and printed
\* a status line failed because of the text on its standard error.
C14_Witness ==
    /\ CommandRan({"Status"})
    /\ last.outs[1] = Output(TRUE, TRUE, RunLine, <<"e", "r", "r", "\n">>)
    /\ ~last.res.ok
    /\ last.res.message = Msg("stderr", <<"e", "r", "r">>)

\* The exit code the specification gives each failure kind
ExitCodeOf(kind) ==
    CASE kind = "InvalidService" -> 2
      [] kind = "DefinitionMissing" -> 3
      [] kind = "AlreadyEnabled" -> 4
      [] kind = "NotEnabled" -> 5
      [] kind = "SvFailure" -> 6
      [] kind = "Io" -> 7
      [] OTHER -> 1

\* C15: a one-shot process exits with 0 exactly when its operation succeeded
\* (the envelope it printed has status "ok"), and otherwise with the code of
\* the failure kind alone: 2 for a name that is not accepted, 3 for Enable
\* without a definition, 4 for Enable of an enabled service, 5 for Disable of
\* a service that is not enabled, 6 for a supervisor command that exited
\* unsuccessfully and for a list whose status query failed (a list fails
\* with 2, 6 or 7 and with nothing else), 7 for a filesystem error, 1 for the
\* rest, the log stream that is not available among them.
C15_ExitCodes ==
    last.op # "none" =>
      /\ last.exit = 0 <=> last.res.ok
      /\ last.exit = 0 <=> HelperResponse(last.res).status = "ok"
      /\ ~last.res.ok => last.exit = ExitCodeOf(last.res.kind)
      /\ (last.op # "List" /\ ~Accepted(last.service)) => last.exit = 2
      /\ (last.op = "Enable" /\ Accepted(last.service)
            /\ ~Exists(last.before, Join(definitions_dir, last.service))) => last.exit = 3
      /\ (last.op = "Enable" /\ Accepted(last.service)
            /\ Exists(last.before, Join(definitions_dir, last.service))
            /\ Exists(last.before, Join(enabled_dir, last.service))) => last.exit = 4
      /\ (last.op = "Disable" /\ Accepted(last.service)
            /\ ~Exists(last.before, Join(enabled_dir, last.service))) => last.exit = 5
      /\ (CommandRan(SvKinds) /\ ~last.outs[1].success) => last.exit = 6
      /\ (CommandRan({"Status"}) /\ Trim(last.outs[1].stderr) # <<>>) => last.exit = 6
      /\ (last.op = "List" /\ ~last.res.ok) =>
            /\ last.exit \in {2, 6, 7}
            /\ last.exit = 6 <=> \E n \in DOMAIN last.outs :
                                    /\ last.outs[n].spawned
                                    /\ last.res.message \in
                                          {Msg("stderr", Trim(last.outs[n].stderr)),
                                           Msg("sv status returned no output", <<>>)}
      /\ (last.op \in SvKinds \cup {"Status"} /\ Accepted(last.service)
            /\ ~last.outs[1].spawned) => last.exit = 7
      /\ (last.op = "Logs" /\ Accepted(last.service) /\ ~last.outs[1].available) =>
            last.exit = 1

\* C15 witness: "logs a" found no log stream and exited with 1.
C15_Witness ==
    /\ last.op = "Logs" /\ last.service = <<"a">>
    /\ ~last.outs[1].available
    /\ last.res.message.tag = "log stream unavailable"
    /\ last.exit = 1

\* C16: validate_service_name accepts a name exactly when the name is not
\* empty and each of its characters is one of A-Z, a-z, 0-9, '-', '_', '.';
\* it rejects "", "../bad" and "a/b" and accepts "valid_name-01" and "x.y_z".
C16_ValidateWhitelist ==
    last.op = "Validate" =>
      /\ last.res.ok <=> Accepted(last.service)
      /\ last.service \in {<<>>, <<".", ".", "/", "b", "a", "d">>, <<"a", "/", "b">>} =>
            (~last.res.ok /\ last.res.kind = "InvalidServiceName")
      /\ last.service \in {<<"v", "a", "l", "i", "d", "_", "n", "a", "m", "e", "-", "0", "1">>,
                           <<"x", ".", "y", "_", "z">>} => last.res.ok

\* C16 witness: the validator was called with "../bad" and rejected it.
C16_Witness ==
    /\ last.op = "Validate"
    /\ last.service = <<".", ".", "/", "b", "a", "d">>
    /\ ~last.res.ok

\* C17: from_sv_status returns a state for every text and never fails; a text
\* whose trimmed first line is of none of the three grammars, the empty text
\* and a text with an empty first line among them, gives Unknown with raw
\* exactly the trimmed first line.
C17_ParseTotal ==
    last.op = "Parse" =>
      /\ last.res.ok
      /\ last.res.data.state \in {"Running", "Down", "Failed", "Unknown"}
      /\ last.res.data.state = "Unknown" =>
            last.res.data = Unknown(Trim(FirstLine(last.outs[1].text)))
      /\ last.outs[1].kind = "other" => last.res.data.state = "Unknown"
      /\ last.outs[1].text \in {<<>>, <<" ", " ">>, <<" ", "\t", "\n">>,
                                <<"\n", "r", "u", "n", ":", " ", "a", ":", " ", "(", "p", "i", "d", " ", "7", ")", " ", "3", "s", "\n">>} =>
            last.res.data = Unknown(<<>>)
      /\ last.outs[1].text = <<" ", " ", "w", "a", "r", "n", "i", "n", "g", ":", " ", "a", ":", " ", "u", "n", "a", "b", "l", "e", " ", "t", "o", " ", "o", "p", "e", "n", " ", "s", "u", "p", "e", "r", "v", "i", "s", "e", "/", "o", "k", " ", " ", "\n">> =>
            last.res.data = Unknown(<<"w", "a", "r", "n", "i", "n", "g", ":", " ", "a", ":", " ", "u", "n", "a", "b", "l", "e", " ", "t", "o", " ", "o", "p", "e", "n", " ", "s", "u", "p", "e", "r", "v", "i", "s", "e", "/", "o", "k">>)

\* C17 witness: a text with an empty first line and a status line after it
\* gave Unknown with an empty raw.
C17_Witness ==
    /\ last.op = "Parse"
    /\ last.outs[1].text = <<"\n", "r", "u", "n", ":", " ", "a", ":", " ", "(", "p", "i", "d", " ", "7", ")", " ", "3", "s", "\n">>
    /\ last.res.data = Unknown(<<>>)

\* The numbers of the inputs that are in the range of their field: u32 for a
\* pid, u64 for seconds, i32 for an exit code
FitsU32 == {<<"7">>, <<"0", "0", "7">>, <<"4", "2", "9", "4", "9", "6", "7", "2", "9", "5">>}

FitsU64 == {<<"3">>, <<"1", "8", "4", "4", "6", "7", "4", "4", "0", "7", "3", "7", "0", "9", "5", "5", "1", "6", "1", "5">>}

FitsI32 == {<<"1">>, <<"-", "1">>, <<"2", "1", "4", "7", "4", "8", "3", "6", "4", "7">>,
            <<"-", "2", "1", "4", "7", "4", "8", "3", "6", "4", "8">>}

\* The value a decimal numeral stands for, as its digits without leading zeros
RECURSIVE ValueOf(_)
ValueOf(numeral) ==
    IF Len(numeral) > 1 /\ Head(numeral) = "0" THEN ValueOf(Tail(numeral)) ELSE numeral

\* The value a signed numeral stands for
SignedValueOf(numeral) ==
    IF Head(numeral) = "-"
    THEN [neg |-> TRUE, digits |-> ValueOf(Tail(numeral))]
    ELSE [neg |-> FALSE, digits |-> ValueOf(numeral)]

\* C18: from_sv_status looks at the trimmed first line only: the blanks around
\* it and the lines after it never change the result. A first line
\* "run: <name>: (pid P) Us..." gives Running with pid P and uptime U,
\* "down: <name>: Ss[, ...]" gives Down with since S, and
\* "fail: <name>: (pid P) Us, exit E" gives Failed with pid P, uptime U and
\* exit code E, which may be negative (P, U, S, E within the range of their
\* field).
C18_ParseGrammars ==
    last.op = "Parse" =>
      /\ last.res.data = from_sv_status(last.outs[1].line)
      /\ (last.outs[1].kind = "run" /\ last.outs[1].pid \in FitsU32
            /\ last.outs[1].seconds \in FitsU64) =>
            last.res.data = [state |-> "Running", pid |-> ValueOf(last.outs[1].pid),
                             uptime |-> ValueOf(last.outs[1].seconds)]
      /\ (last.outs[1].kind = "down" /\ last.outs[1].seconds \in FitsU64) =>
            /\ last.res.data.state = "Down"
            /\ last.res.data.since = ValueOf(last.outs[1].seconds)
            /\ DOMAIN last.res.data = {"state", "since", "normally_up"}
      /\ (last.outs[1].kind = "fail" /\ last.outs[1].pid \in FitsU32
            /\ last.outs[1].seconds \in FitsU64 /\ last.outs[1].code \in FitsI32) =>
            last.res.data = [state |-> "Failed", pid |-> ValueOf(last.outs[1].pid),
                             uptime |-> ValueOf(last.outs[1].seconds),
                             exit_code |-> SignedValueOf(last.outs[1].code)]

\* C18 witness: "fail: a: (pid 007) 3s, exit -1" after two blanks and before
\* a second line that is a down: line gave Failed with pid 7, uptime 3 and
\* exit code -1.
C18_Witness ==
    /\ last.op = "Parse"
    /\ last.outs[1].kind = "fail" /\ last.outs[1].pid = <<"0", "0", "7">>
    /\ last.outs[1].code = <<"-", "1">>
    /\ last.outs[1].pre # <<>> /\ Len(last.outs[1].post) > 1
    /\ last.res.data = Failed(<<"7">>, <<"3">>, [neg |-> TRUE, digits |-> <<"1">>])

\* C19: for every line of the Down grammar, normally_up is true exactly when
\* "normally up" stands in the part of the line after the seconds field;
\* "normally up" standing only before it, as the service name, does not set
\* the flag.
C19_NormallyUpAfterSeconds ==
    (last.op = "Parse" /\ last.outs[1].kind = "down") =>
      /\ last.res.data.state = "Down"
      /\ last.res.data.normally_up <=>
            Contains(last.outs[1].tail, <<"n", "o", "r", "m", "a", "l", "l", "y", " ", "u", "p">>)

\* C20: a line with the keyword and the shape of a grammar whose pid does not
\* fit u32, or whose seconds do not fit u64, does not give that grammar's
\* state with a value put in the field's place: it gives Unknown with the
\* trimmed line. The one field with a default is the exit code of Failed, 0
\* when it is there and does not parse.
C20_NoSubstitutedNumbers ==
    last.op = "Parse" =>
      /\ (\/ last.outs[1].kind \in {"run", "fail"} /\ last.outs[1].pid \notin FitsU32
          \/ last.outs[1].kind \in {"run", "down", "fail"}
               /\ last.outs[1].seconds \notin FitsU64) =>
            last.res.data = Unknown(last.outs[1].line)
      /\ (last.outs[1].kind = "fail" /\ last.outs[1].pid \in FitsU32
            /\ last.outs[1].seconds \in FitsU64 /\ last.outs[1].code \notin FitsI32) =>
            /\ last.res.data.state = "Failed"
            /\ last.res.data.exit_code = [neg |-> FALSE, digits |-> <<"0">>]

\* The requests that have started, and those that returned success
Racers == {c \in Callers : req[c].pc # "idle"}

Succeeded == {c \in Racers : req[c].pc = "done" /\ req[c].res.ok}

\* At least two requests have started, and every one that has is the
\* operation op for the name
Racing(op, name) ==
    /\ Cardinality(Racers) >= 2
    /\ \A c \in Racers : req[c].op = op /\ req[c].service = name

AllReturned == \A c \in Racers : req[c].pc = "done"

\* The filesystem as it was when the first of the requests started, seen
\* through the requests that started from it
StartedWith(c, name, defined, enabled) ==
    /\ c \in Racers
    /\ Exists(req[c].before, DefinitionOf(name)) = defined
    /\ Exists(req[c].before, MarkerOf(name)) = enabled

\* C21: of concurrent Enable requests for one accepted name that was defined
\* and not enabled when the first of them started, whatever the order of
\* their existence tests and link creations, at most one returns success;
\* when all have returned, the filesystem is the one before plus the one link
\* enabled_root/name -> definitions_root/name, and every other request
\* returned AlreadyEnabled (it tested the marker after the link was made) or
\* a filesystem error (it had passed the test and its own symlink failed).
\* Of concurrent Disable requests for a name that was enabled when the first
\* of them started, at most one returns success and every other one returns
\* NotEnabled or a filesystem error.
C21_ConcurrentEnableDisable ==
    \A name \in RaceNames :
      /\ (/\ Racing("Enable", name) /\ Accepted(name)
          /\ \E c \in Racers : StartedWith(c, name, TRUE, FALSE)) =>
            /\ Cardinality(Succeeded) <= 1
            /\ AllReturned =>
                  /\ \E c \in Racers :
                        /\ StartedWith(c, name, TRUE, FALSE)
                        /\ Entry(MarkerOf(name), "link", DefinitionOf(name)) \notin req[c].before
                        /\ fs = req[c].before
                                  \cup {Entry(MarkerOf(name), "link", DefinitionOf(name))}
                  /\ \A c \in Racers \ Succeeded :
                        \/ /\ req[c].res.kind = "AlreadyEnabled"
                           /\ req[c].calls = <<"src.exists", "dest.exists">>
                        \/ /\ req[c].res.kind = "Io"
                           /\ req[c].calls = <<"src.exists", "dest.exists", "symlink">>
                           /\ ~Exists(req[c].before, MarkerOf(name))
      /\ (/\ Racing("Disable", name) /\ Accepted(name)
          /\ \E c \in Racers : Exists(req[c].before, MarkerOf(name))) =>
            /\ Cardinality(Succeeded) <= 1
            /\ AllReturned =>
                  \A c \in Racers \ Succeeded :
                     \/ /\ req[c].res.kind = "NotEnabled"
                        /\ req[c].calls = <<"dest.exists">>
                     \/ /\ req[c].res.kind = "Io"
                        /\ req[c].calls = <<"dest.exists", "remove_file">>

\* C21 witness: two Enable requests for "a" both found no marker; one made
\* the link and returned success, the symlink of the other failed.
C21_Witness ==
    /\ Racing("Enable", <<"a">>) /\ AllReturned
    /\ \E c, d \in Racers :
          /\ req[c].res.ok
          /\ req[d].res.kind = "Io"
          /\ req[d].calls = <<"src.exists", "dest.exists", "symlink">>
    /\ Entry(MarkerOf(<<"a">>), "link", DefinitionOf(<<"a">>)) \in fs

====
